---------------------------- MODULE Spec2Model ----------------------------
(***************************************************************************)
(* A model of subs4a.py: the subtitle overlay's clock (pause / resume,     *)
(* offset shift, anchor-preserving rate adjustment), the caption lookup    *)
(* and the 100 ms update tick.                                             *)
(*                                                                         *)
(* Arithmetic.  The program computes with Python floats; the model uses    *)
(* exact rational arithmetic on a fixed grid, so rounding error of the     *)
(* floating-point operations is outside the model:                         *)
(*   - wall-clock instants and durations are whole quanta, of which there  *)
(*     are QuantaPerSecond in a second;                                    *)
(*   - time_multiplier is counted in thousandths (24.0 is 24000), so the   *)
(*     step 0.001 is 1;                                                    *)
(*   - subtitle (virtual) times and start_offset are counted in units of   *)
(*     1 / (24 * 1000 * QuantaPerSecond) second, the grid on which         *)
(*     elapsed_real * time_multiplier / 24 is exact: r quanta at a         *)
(*     multiplier of m thousandths are r * m units.                        *)
(*                                                                         *)
(* Widget geometry, style sheets, window dragging and the 3 s hide timer   *)
(* of the coefficient overlay do not feed back into the clock or caption   *)
(* state and are not modelled; the texts written to the three labels are.  *)
(***************************************************************************)
EXTENDS Integers, Sequences, FiniteSets, TLC

\* ------------------------------------------------------------------ grid
\* Wall-clock resolution of the model: quanta per second.
QuantaPerSecond == 2
\* time_multiplier is divided by 24. (elapsed_subtitle, adjust_time_multiplier).
RefRate == 24
\* Resolution of time_multiplier: thousandths, the size of step = 0.001.
PerMille == 1000
\* Units of subtitle time in one second.
UnitsPerSecond == RefRate * PerMille * QuantaPerSecond
\* s seconds, num/den seconds, as subtitle time.
Sec(s) == s * UnitsPerSecond
SecFrac(num, den) == (num * UnitsPerSecond) \div den

\* ---------------------------------------------------------------- bounds
\* time.time() when the overlay is constructed, in quanta.
Epoch == 3
\* The wall clock runs for at most this many quanta after Epoch.
MaxNow == 10
\* At most this many key presses are delivered.
MaxKeys == 2

Min(a, b) == IF a <= b THEN a ELSE b
Max(a, b) == IF a >= b THEN a ELSE b

\* ------------------------------------------------- adjust_time_multiplier
step == 1
min_coeff == 100
max_coeff == 122000

\* --------------------------------------------------------------- captions
Subtitle(start, end, text) == [start |-> start, end |-> end, text |-> text]

\* The spec's example list.
HelloWorld == << Subtitle(Sec(0), Sec(2), "Hello"), Subtitle(Sec(2), Sec(4), "World") >>
\* File order is not time order; "Inner" is nested in "Outer" and listed after it,
\* "Early" overlaps "Outer" at its end and is listed last.
Nested == << Subtitle(Sec(1), Sec(4), "Outer"), Subtitle(Sec(2), Sec(3), "Inner"),
             Subtitle(Sec(0), SecFrac(3, 2), "Early") >>
\* The short caption is listed first and wins inside the long one; a caption
\* around the hour mark.
Shadow == << Subtitle(Sec(1), Sec(2), "Short"), Subtitle(Sec(0), Sec(3), "Long"),
             Subtitle(Sec(3600), Sec(3602), "Hour") >>

\* ----------------------------------------------------------------- parse_srt
\* An .srt file, block by block.  A block whose lines match the pattern of
\* parse_srt (a number line, then "HH:MM:SS,mmm --> HH:MM:SS,mmm", then the text)
\* has matches = TRUE, its two timestamps as <<HH, MM, SS, mmm>> and the lines of
\* its text; any other block has matches = FALSE.
Block(start, end, lines) == [matches |-> TRUE, start |-> start, end |-> end, lines |-> lines]
Garbage == [matches |-> FALSE, start |-> << >>, end |-> << >>, lines |-> << >>]

\* int(h)*3600 + int(m)*60 + int(s) + int(ms)/1000
time_to_seconds(t) == Sec(t[1] * 3600 + t[2] * 60 + t[3]) + SecFrac(t[4], 1000)

\* match.group(4).strip().replace('\n', '<br>') of a text without blank lines.
RECURSIVE JoinBr(_)
JoinBr(lines) ==
    IF lines = << >> THEN ""
    ELSE IF Len(lines) = 1 THEN lines[1]
    ELSE lines[1] \o "<br>" \o JoinBr(Tail(lines))

\* The body of the finditer loop: every match is appended, nothing else is.
AppendMatch(subs, b) ==
    IF b.matches
    THEN Append(subs, Subtitle(time_to_seconds(b.start), time_to_seconds(b.end),
                               JoinBr(b.lines)))
    ELSE subs

RECURSIVE ParseFrom(_, _, _)
ParseFrom(blocks, i, subs) ==
    IF i > Len(blocks) THEN subs
    ELSE ParseFrom(blocks, i + 1, AppendMatch(subs, blocks[i]))

parse_srt(blocks) == ParseFrom(blocks, 1, << >>)

\* A file with a sound record, a block that does not match, and a record whose end
\* timestamp is earlier than its start timestamp.
BackwardsFile ==
    << Block(<< 0, 0, 1, 0 >>, << 0, 0, 2, 500 >>, << "Fine" >>),
       Garbage,
       Block(<< 0, 0, 5, 0 >>, << 0, 0, 3, 0 >>, << "Back", "wards" >>) >>

VARIABLES
    now,              \* time.time(), quanta
    subtitles,        \* self.subtitles
    start_offset,     \* self.start_offset, units
    time_multiplier,  \* self.time_multiplier, thousandths
    current_subtitle, \* self.current_subtitle
    paused,           \* self.paused
    pause_time,       \* self.pause_time, quanta
    elapsed_paused,   \* self.elapsed_paused, quanta
    show_timer,       \* self.show_timer
    font_size_pt,     \* self.font_size_pt
    playback_start,   \* self.playback_start, quanta
    label_text,       \* text of self.label
    caption_changed,  \* whether the last tick called self.label.setText
    timer_text,       \* text of self.timer_label: << >> or <<HH, MM, SS, mmm>>
    timer_set,        \* whether the last tick called self.timer_label.setText
    coeff_text,       \* text of self.coeff_label: <<time_multiplier, font_size_pt>>
    event,            \* the event the Qt event loop dispatched last
    nkeys,            \* key presses delivered so far
    pc,               \* "loop": the event loop is idle; else the statement a handler is at
    last_adjust       \* history: the clock as the latest key press found it, if that
                      \* key was a rate adjustment

vars == << now, subtitles, start_offset, time_multiplier, current_subtitle, paused,
           pause_time, elapsed_paused, show_timer, font_size_pt, playback_start,
           label_text, caption_changed, timer_text, timer_set, coeff_text, event, nkeys,
           pc, last_adjust >>

\* ------------------------------------------------------------------ clock
\* Faulty variant: the paused branch is missing.
get_elapsed_real_unpaused == now - playback_start - elapsed_paused

\* Faulty variant: playback_start is not subtracted.
get_elapsed_real_noorigin ==
    IF paused THEN pause_time - elapsed_paused ELSE now - elapsed_paused

get_elapsed_real ==
    IF paused
    THEN pause_time - playback_start - elapsed_paused
    ELSE now - playback_start - elapsed_paused

\* elapsed_real * self.time_multiplier / 24. + self.start_offset, in units.
elapsed_subtitle(elapsed_real) == elapsed_real * time_multiplier + start_offset

\* The subtitle time a tick or a rate adjustment computes in the current state.
elapsed_now == elapsed_subtitle(get_elapsed_real)

\* ----------------------------------------------------------------- lookup
RECURSIVE FindFrom(_, _, _)
FindFrom(subs, i, elapsed) ==
    IF i > Len(subs) THEN ""
    ELSE IF subs[i].start <= elapsed /\ elapsed <= subs[i].end THEN subs[i].text
    ELSE FindFrom(subs, i + 1, elapsed)

\* Faulty variant: the loop without its break, so the last match wins.
RECURSIVE FindLastFrom(_, _, _, _)
FindLastFrom(subs, i, elapsed, found) ==
    IF i > Len(subs) THEN found
    ELSE FindLastFrom(subs, i + 1, elapsed,
                      IF subs[i].start <= elapsed /\ elapsed <= subs[i].end
                      THEN subs[i].text ELSE found)
Find_lastmatch(subs, elapsed) == FindLastFrom(subs, 1, elapsed, "")

\* The for/break loop of update_subtitle.
Find(subs, elapsed) == FindFrom(subs, 1, elapsed)

\* ------------------------------------------------------------ timer text
\* Python's int(): truncation toward zero, here of elapsed units to whole seconds.
IntSeconds(elapsed) ==
    IF elapsed >= 0 THEN elapsed \div UnitsPerSecond ELSE -((-elapsed) \div UnitsPerSecond)

\* int(x * 1000) for a fraction of x units.
IntMillis(x) ==
    IF x >= 0 THEN (x * 1000) \div UnitsPerSecond ELSE -(((-x) * 1000) \div UnitsPerSecond)

\* The four fields of f"{hours:02d}:{minutes:02d}:{seconds:02d}.{milliseconds:03d}";
\* // and % are Python's floor division and floor modulo.
TimerText(elapsed) ==
    << elapsed \div Sec(3600),
       (elapsed % Sec(3600)) \div Sec(60),
       (elapsed % Sec(60)) \div UnitsPerSecond,
       IntMillis(elapsed - Sec(IntSeconds(elapsed))) >>


\* ------------------------------------------------------------ construction
\* main(): srt file, start_offset, time_multiplier and font_size_pt come from the
\* command line and are not validated.
Configs ==
    { [subs |-> HelloWorld, offset |-> 0,                  mult |-> 24000,  font |-> 24],
      [subs |-> Nested,     offset |-> 0,                  mult |-> 121999, font |-> 24],
      [subs |-> Nested,     offset |-> SecFrac(1, 4),      mult |-> 101,    font |-> 9],
      [subs |-> Shadow,     offset |-> 0,                  mult |-> 50,     font |-> 24],
      [subs |-> Shadow,     offset |-> 0,                  mult |-> 122500, font |-> 171],
      [subs |-> Shadow,     offset |-> SecFrac(14399, 4),  mult |-> 24000,  font |-> 24],
      [subs |-> parse_srt(BackwardsFile), offset |-> 0,    mult |-> 24000,  font |-> 24] }

\* No rate adjustment was the latest key press.
NoAdjust == [key |-> "none", mult |-> 0, offset |-> 0, real |-> 0]

\* SubtitleOverlay.__init__
Init ==
    \E cfg \in Configs :
        /\ subtitles = cfg.subs
        /\ start_offset = cfg.offset
        /\ time_multiplier = cfg.mult
        /\ current_subtitle = ""
        /\ paused = FALSE
        /\ pause_time = 0
        /\ elapsed_paused = 0
        /\ show_timer = FALSE
        /\ font_size_pt = cfg.font
        /\ label_text = ""
        /\ caption_changed = FALSE
        /\ timer_text = << >>
        /\ timer_set = FALSE
        /\ now = Epoch
        /\ playback_start = Epoch
        /\ coeff_text = << cfg.mult, cfg.font >>
        /\ event = "init"
        /\ nkeys = 0
        /\ pc = "loop"
        /\ last_adjust = NoAdjust

\* ------------------------------------------------------------- event loop
\* Faulty variant: events are delivered while a handler is still running, as a
\* timer living in a second thread would deliver them.
Dispatch_preemptive == TRUE

\* app.exec_() runs every handler to completion on the one GUI thread: the next
\* event, a key press or the QTimer's timeout, is dispatched only when the handler
\* of the one before has returned.
Dispatch == pc = "loop"

\* ------------------------------------------------------------ key handlers
\* Faulty variant: the "1 second" of the handler's comments.
time_offset_second == UnitsPerSecond

time_offset == UnitsPerSecond \div 2

\* Faulty variant: resuming does not account for the pause.
KeySpace_noaccum ==
    /\ IF paused
       THEN /\ paused' = FALSE
            /\ UNCHANGED << elapsed_paused, pause_time >>
       ELSE /\ paused' = TRUE
            /\ pause_time' = now
            /\ elapsed_paused' = elapsed_paused
    /\ UNCHANGED << start_offset, time_multiplier, show_timer, font_size_pt, coeff_text >>

\* Faulty variant: the pause is stamped relative to the start of playback.
KeySpace_relstamp ==
    /\ IF paused
       THEN /\ paused' = FALSE
            /\ elapsed_paused' = elapsed_paused + (now - pause_time)
            /\ pause_time' = pause_time
       ELSE /\ paused' = TRUE
            /\ pause_time' = now - playback_start
            /\ elapsed_paused' = elapsed_paused
    /\ UNCHANGED << start_offset, time_multiplier, show_timer, font_size_pt, coeff_text >>

\* Key_Space
KeySpace ==
    /\ IF paused
       THEN /\ paused' = FALSE
            /\ elapsed_paused' = elapsed_paused + (now - pause_time)
            /\ pause_time' = pause_time
       ELSE /\ paused' = TRUE
            /\ pause_time' = now
            /\ elapsed_paused' = elapsed_paused
    /\ UNCHANGED << start_offset, time_multiplier, show_timer, font_size_pt, coeff_text >>

\* Key_Left
KeyLeft ==
    /\ start_offset' = start_offset - time_offset
    /\ UNCHANGED << time_multiplier, paused, pause_time, elapsed_paused, show_timer,
                    font_size_pt, coeff_text >>

\* Key_Right
KeyRight ==
    /\ start_offset' = start_offset + time_offset
    /\ UNCHANGED << time_multiplier, paused, pause_time, elapsed_paused, show_timer,
                    font_size_pt, coeff_text >>

\* Key_A
KeyA ==
    /\ show_timer' = ~show_timer
    /\ UNCHANGED << start_offset, time_multiplier, paused, pause_time, elapsed_paused,
                    font_size_pt, coeff_text >>

\* Faulty variant: no clamping.
NewCoeff_unclamped(increase) ==
    IF increase THEN time_multiplier + step ELSE time_multiplier - step

\* Faulty variant: the "~1%" of the docstring, a relative step.
NewCoeff_percent(increase) ==
    IF increase
    THEN Min(max_coeff, time_multiplier + time_multiplier \div 100)
    ELSE Max(min_coeff, time_multiplier - time_multiplier \div 100)

\* new_coeff of adjust_time_multiplier
NewCoeff(increase) ==
    IF increase
    THEN Min(max_coeff, time_multiplier + step)
    ELSE Max(min_coeff, time_multiplier - step)

\* Faulty variant: the offset is solved for the old multiplier.
NewOffset_oldcoeff(elapsed_sub, elapsed_real, new_coeff) ==
    elapsed_sub - elapsed_real * time_multiplier

\* elapsed_subtitle - elapsed_real * new_coeff/24.0
NewOffset(elapsed_sub, elapsed_real, new_coeff) == elapsed_sub - elapsed_real * new_coeff

adjust_time_multiplier(increase) ==
    LET elapsed_real == get_elapsed_real
        elapsed_sub  == elapsed_subtitle(elapsed_real)
        new_coeff    == NewCoeff(increase)
    IN  /\ start_offset' = NewOffset(elapsed_sub, elapsed_real, new_coeff)
        /\ time_multiplier' = new_coeff
        /\ coeff_text' = << new_coeff, font_size_pt >>
        /\ UNCHANGED << paused, pause_time, elapsed_paused, show_timer, font_size_pt >>

min_size == 8
max_size == 172

\* Faulty variant: the font keys are routed to the rate adjustment.
change_font_size_adjust(increase) == adjust_time_multiplier(increase)

change_font_size(increase) ==
    LET new_size == IF increase THEN Min(max_size, font_size_pt + 2)
                                ELSE Max(min_size, font_size_pt - 2)
    IN  /\ font_size_pt' = new_size
        /\ coeff_text' = << time_multiplier, new_size >>
        /\ UNCHANGED << start_offset, time_multiplier, paused, pause_time,
                        elapsed_paused, show_timer >>

Keys == { "Space", "Left", "Right", "A", "CtrlPlus", "CtrlMinus", "X", "C" }

\* The clock a rate adjustment finds, kept for the properties.
Remember(key) ==
    IF key \in { "CtrlPlus", "CtrlMinus" }
    THEN [key |-> key, mult |-> time_multiplier, offset |-> start_offset,
          real |-> get_elapsed_real]
    ELSE NoAdjust

keyPressEvent(key) ==
    /\ Dispatch
    /\ nkeys < MaxKeys
    /\ nkeys' = nkeys + 1
    /\ event' = key
    /\ last_adjust' = Remember(key)
    /\ pc' = pc
    /\ CASE key = "Space"     -> KeySpace
         [] key = "Left"      -> KeyLeft
         [] key = "Right"     -> KeyRight
         [] key = "A"         -> KeyA
         [] key = "CtrlPlus"  -> adjust_time_multiplier(TRUE)
         [] key = "CtrlMinus" -> adjust_time_multiplier(FALSE)
         [] key = "X"         -> change_font_size(TRUE)
         [] key = "C"         -> change_font_size(FALSE)
    /\ UNCHANGED << now, subtitles, current_subtitle, playback_start, label_text,
                    caption_changed, timer_text, timer_set >>

\* -------------------------------------------------------------------- tick
\* Faulty variant: the label is set on every tick.
CaptionChanged_always(subtitle_text) == TRUE

\* Faulty variant: the comparison is made with the caption just found.
CaptionChanged_self(subtitle_text) == subtitle_text # subtitle_text

\* subtitle_text != self.current_subtitle
CaptionChanged(subtitle_text) == subtitle_text # current_subtitle

\* Faulty variant: a tick that keeps the accumulated pause up to date while paused.
update_subtitle_accum ==
    LET elapsed_real  == get_elapsed_real
        elapsed       == elapsed_subtitle(elapsed_real)
        subtitle_text == Find(subtitles, elapsed)
    IN  /\ Dispatch
        /\ IF CaptionChanged(subtitle_text)
           THEN /\ current_subtitle' = subtitle_text
                /\ label_text' = subtitle_text
                /\ caption_changed' = TRUE
           ELSE /\ UNCHANGED << current_subtitle, label_text >>
                /\ caption_changed' = FALSE
        /\ IF show_timer
           THEN /\ timer_text' = TimerText(elapsed)
                /\ timer_set' = TRUE
           ELSE /\ timer_text' = timer_text
                /\ timer_set' = FALSE
        /\ elapsed_paused' = IF paused THEN elapsed_paused + (now - pause_time)
                                       ELSE elapsed_paused
        /\ event' = "tick"
        /\ UNCHANGED << now, subtitles, start_offset, time_multiplier, paused, pause_time,
                        show_timer, font_size_pt, playback_start, coeff_text, nkeys, pc,
                        last_adjust >>

\* The QTimer's timeout.
update_subtitle ==
    LET elapsed_real  == get_elapsed_real
        elapsed       == elapsed_subtitle(elapsed_real)
        subtitle_text == Find(subtitles, elapsed)
    IN  /\ Dispatch
        /\ IF CaptionChanged(subtitle_text)
           THEN /\ current_subtitle' = subtitle_text
                /\ label_text' = subtitle_text
                /\ caption_changed' = TRUE
           ELSE /\ UNCHANGED << current_subtitle, label_text >>
                /\ caption_changed' = FALSE
        /\ IF show_timer
           THEN /\ timer_text' = TimerText(elapsed)
                /\ timer_set' = TRUE
           ELSE /\ timer_text' = timer_text
                /\ timer_set' = FALSE
        /\ event' = "tick"
        /\ UNCHANGED << now, subtitles, start_offset, time_multiplier, paused, pause_time,
                        elapsed_paused, show_timer, font_size_pt, playback_start,
                        coeff_text, nkeys, pc, last_adjust >>

\* The wall clock advances by one quantum between two events.
AdvanceTime ==
    /\ now < Epoch + MaxNow
    /\ now' = now + 1
    /\ event' = "time"
    /\ UNCHANGED << subtitles, start_offset, time_multiplier, current_subtitle, paused,
                    pause_time, elapsed_paused, show_timer, font_size_pt, playback_start,
                    label_text, caption_changed, timer_text, timer_set, coeff_text, nkeys,
                    pc, last_adjust >>

Next ==
    \/ \E key \in Keys : keyPressEvent(key)
    \/ update_subtitle
    \/ AdvanceTime

Spec == Init /\ [][Next]_vars

\* self.timer.start(100): the timeout keeps firing as long as the overlay runs.
SpecLive == Init /\ [][Next]_vars /\ WF_vars(update_subtitle)

\* ------------------------------------------------------ statement by statement
\* The handlers that write more than one field of the clock, one assignment at a
\* time; pc names the statement the handler has reached.
SplitKeys == { "Space", "CtrlPlus", "CtrlMinus" }

\* The handler is dispatched and runs up to and including its first write:
\* self.paused = False / True, or self.start_offset = ... .
BeginKey(key) ==
    /\ Dispatch
    /\ nkeys < MaxKeys
    /\ nkeys' = nkeys + 1
    /\ event' = key
    /\ last_adjust' = Remember(key)
    /\ IF key = "Space"
       THEN /\ paused' = ~paused
            /\ pc' = IF paused THEN "resume" ELSE "pause"
            /\ start_offset' = start_offset
       ELSE /\ start_offset' =
                 NewOffset(elapsed_now, get_elapsed_real, NewCoeff(key = "CtrlPlus"))
            /\ pc' = key
            /\ paused' = paused
    /\ UNCHANGED << now, subtitles, time_multiplier, current_subtitle, pause_time,
                    elapsed_paused, show_timer, font_size_pt, playback_start, label_text,
                    caption_changed, timer_text, timer_set, coeff_text >>

\* The rest of the handler: self.elapsed_paused += resumed_time - self.pause_time,
\* self.pause_time = time.time(), or self.time_multiplier = new_coeff followed by
\* show_coeff_info().  new_coeff was computed from the multiplier that is still in
\* place.
EndKey ==
    /\ pc # "loop"
    /\ pc' = "loop"
    /\ CASE pc = "resume" ->
              /\ elapsed_paused' = elapsed_paused + (now - pause_time)
              /\ UNCHANGED << pause_time, time_multiplier, coeff_text >>
         [] pc = "pause" ->
              /\ pause_time' = now
              /\ UNCHANGED << elapsed_paused, time_multiplier, coeff_text >>
         [] pc \in { "CtrlPlus", "CtrlMinus" } ->
              /\ time_multiplier' = NewCoeff(pc = "CtrlPlus")
              /\ coeff_text' = << NewCoeff(pc = "CtrlPlus"), font_size_pt >>
              /\ UNCHANGED << pause_time, elapsed_paused >>
    /\ UNCHANGED << now, subtitles, start_offset, current_subtitle, paused, show_timer,
                    font_size_pt, playback_start, label_text, caption_changed, timer_text,
                    timer_set, event, nkeys, last_adjust >>

NextStatements ==
    \/ \E key \in SplitKeys : BeginKey(key)
    \/ EndKey
    \/ \E key \in Keys \ SplitKeys : keyPressEvent(key)
    \/ update_subtitle
    \/ AdvanceTime

SpecStatements == Init /\ [][NextStatements]_vars

\* ================================================================ properties
AdjustKeys == { "CtrlPlus", "CtrlMinus" }
Clamp(x, lo, hi) == Max(lo, Min(hi, x))

\* C1  Continuity under recalibration: a rate adjustment (Ctrl+Plus or Ctrl+Minus),
\* in any clock state, running or paused, clamped or not, leaves the subtitle time
\* read at the same wall-clock instant unchanged.
C1_Continuity == [][event' \in AdjustKeys => elapsed_now' = elapsed_now]_vars

\* The clock is paused after some real time has run, and Ctrl+Minus has just
\* re-solved the offset of the default configuration for the multiplier 23.999.
C1_Witness ==
    /\ event = "CtrlMinus"
    /\ paused
    /\ subtitles = HelloWorld
    /\ time_multiplier = 23999
    /\ get_elapsed_real > 0
    /\ start_offset = get_elapsed_real

\* C2  Scale clamping: every rate adjustment sets the multiplier to
\* clamp(multiplier +- 0.001, 0.1, 122.0), so the multiplier lies in [0.1, 122.0]
\* after any single adjustment, whatever multiplier was configured at startup.
C2_ScaleClamped ==
    [][event' \in AdjustKeys =>
         /\ time_multiplier' =
              Clamp(IF event' = "CtrlPlus" THEN time_multiplier + step
                                           ELSE time_multiplier - step,
                    min_coeff, max_coeff)
         /\ time_multiplier' \in min_coeff .. max_coeff]_vars

\* C3  Scale clamping idempotence.  Ctrl+Plus either lands on 122.0 or raises the
\* multiplier by one step and stays below 122.0, so the distance to 122.0, a whole
\* number of steps, shrinks with every call and 122.0 is reached after finitely
\* many calls; symmetrically for Ctrl+Minus and 0.1.  A call at the boundary
\* changes neither the multiplier nor the offset.
C3_ClampIdempotent ==
    [][/\ event' = "CtrlPlus" =>
            /\ \/ time_multiplier' = max_coeff
               \/ /\ time_multiplier' = time_multiplier + step
                  /\ time_multiplier' < max_coeff
            /\ time_multiplier = max_coeff =>
                   /\ time_multiplier' = max_coeff
                   /\ start_offset' = start_offset
       /\ event' = "CtrlMinus" =>
            /\ \/ time_multiplier' = min_coeff
               \/ /\ time_multiplier' = time_multiplier - step
                  /\ time_multiplier' > min_coeff
            /\ time_multiplier = min_coeff =>
                   /\ time_multiplier' = min_coeff
                   /\ start_offset' = start_offset]_vars

\* Started at 121.999 with offset 0, Ctrl+Plus was pressed twice while running,
\* the first time after some real time had run (which made the offset negative by
\* less than half a second): the second press was a call at the boundary 122.0.
C3_Witness ==
    /\ event = "CtrlPlus"
    /\ nkeys = 2
    /\ subtitles = Nested
    /\ time_multiplier = max_coeff
    /\ ~paused /\ ~show_timer /\ font_size_pt = 24
    /\ start_offset < 0
    /\ start_offset > -time_offset

\* C4  Pause freezes virtual time: while paused, the passing of wall-clock time and
\* any number of ticks leave the subtitle time unchanged.
C4_PauseFreezes ==
    [][(paused /\ event' \in { "tick", "time" }) => elapsed_now' = elapsed_now]_vars

\* A tick fires more than one quantum after the clock was paused.
C4_Witness ==
    /\ paused
    /\ event = "tick"
    /\ now > pause_time + 1
    /\ pause_time > playback_start

\* C5  Offset linearity: Left (Right) moves the subtitle time of every fixed
\* elapsed-real snapshot by exactly -0.5 s (+0.5 s), in any clock state, without
\* clamping, and leaves the multiplier and the pause accounting alone; the key is
\* accepted whenever a key can be delivered.
HalfSecond == SecFrac(1, 2)
Snapshots == 0 .. MaxNow
ShiftedBy(delta) ==
    /\ start_offset' = start_offset + delta
    /\ \A r \in Snapshots : elapsed_subtitle(r)' = elapsed_subtitle(r) + delta
    /\ UNCHANGED << time_multiplier, paused, pause_time, elapsed_paused >>
Matching(subs, v) == { i \in 1 .. Len(subs) : subs[i].start <= v /\ v <= subs[i].end }
LowestMatchText(subs, v) ==
    IF Matching(subs, v) = {} THEN ""
    ELSE subs[CHOOSE i \in Matching(subs, v) : \A j \in Matching(subs, v) : i <= j].text
ProbeTimes ==
    { SecFrac(k, 4) : k \in -2 .. 18 } \cup { Sec(3600) - 1, Sec(3600), Sec(3602), Sec(3602) + 1 }
C6_FirstMatch ==
    /\ event = "tick" => current_subtitle = LowestMatchText(subtitles, elapsed_now)
    /\ \A v \in ProbeTimes : Find(subtitles, v) = LowestMatchText(subtitles, v)
    /\ Find(HelloWorld, Sec(1)) = "Hello"
    /\ Find(HelloWorld, Sec(2)) = "Hello"
    /\ Find(HelloWorld, Sec(3)) = "World"
    /\ Find(HelloWorld, Sec(5)) = ""

\* A tick fell where the nested caption "Inner" and the enclosing "Outer", listed
\* before it, both match: "Outer" is current.
C6_Witness ==
    /\ event = "tick"
    /\ subtitles = Nested
    /\ Matching(subtitles, elapsed_now) = { 1, 2 }
    /\ current_subtitle = "Outer"

\* C7  Edge-triggered caption emission: a tick sets the label text if and only if
\* the caption it finds differs from the text the label shows (the last one
\* emitted, initially empty); after the tick the cached caption and the label are
\* the caption found, so a notification never repeats the text of the one before
\* it; nothing but a tick changes the label or the cache.
C7_EdgeTriggered ==
    [][/\ event' = "tick" =>
            LET found == Find(subtitles, elapsed_now)
            IN  /\ caption_changed' <=> (found # label_text)
                /\ caption_changed' => label_text' # label_text
                /\ current_subtitle' = found
                /\ label_text' = found
       /\ event' # "tick" =>
            UNCHANGED << label_text, current_subtitle, caption_changed >>]_vars

\* A tick has just emitted the empty text: the label showed a caption before.
C7_Witness ==
    /\ event = "tick"
    /\ caption_changed
    /\ label_text = ""
    /\ current_subtitle = ""

\* C8  End-to-end scenario, as stated: offset 0, multiplier 24, captions
\* (0,2,Hello),(2,4,World), no key pressed; the tick at 1 s of elapsed real time
\* emits Hello, the tick at 3 s emits World, the tick at 5 s emits the empty text,
\* and no tick strictly between 1 s and 2 s emits.
Scenario ==
    /\ subtitles = HelloWorld
    /\ start_offset = 0
    /\ time_multiplier = 24 * PerMille
    /\ nkeys = 0
\* Wall-clock time since construction, in quanta; the elapsed real time of a clock
\* that was never paused.
SinceStart == now - playback_start
AtSecond(n) == SinceStart = n * QuantaPerSecond
Between1And2 == QuantaPerSecond < SinceStart /\ SinceStart < 2 * QuantaPerSecond
C8_ScenarioAsStated ==
    [][(Scenario /\ event' = "tick") =>
         /\ AtSecond(1) => caption_changed' /\ label_text' = "Hello"
         /\ AtSecond(3) => caption_changed' /\ label_text' = "World"
         /\ AtSecond(5) => caption_changed' /\ label_text' = ""
         /\ Between1And2 => ~caption_changed']_vars

\* C8, amended: in that scenario the tick at 1 s leaves Hello displayed, the tick
\* at 3 s World and the tick at 5 s the empty text, and each of them, like a tick
\* strictly between 1 s and 2 s, emits caption-changed exactly when the label
\* showed another text before it (no earlier tick fell in the same caption).
C8_ScenarioAmended ==
    [][(Scenario /\ event' = "tick") =>
         /\ AtSecond(1) => label_text' = "Hello" /\ (caption_changed' <=> label_text # "Hello")
         /\ AtSecond(3) => label_text' = "World" /\ (caption_changed' <=> label_text # "World")
         /\ AtSecond(5) => label_text' = "" /\ (caption_changed' <=> label_text # "")
         /\ Between1And2 => label_text' = "Hello" /\ (caption_changed' <=> label_text # "Hello")]_vars

\* The tick at 5 s of the scenario has just emitted the empty text.
C8_Witness ==
    /\ Scenario
    /\ event = "tick"
    /\ AtSecond(5)
    /\ caption_changed
    /\ label_text = ""

\* C9  Timer readout: a tick sets the timer text exactly when the timer display is
\* on, and the text is the tick's subtitle time v as HH:MM:SS.mmm, truncated:
\* 0 <= MM <= 59, 0 <= SS <= 59, 0 <= mmm <= 999 and
\* HH*3600 + MM*60 + SS + mmm/1000 is v truncated to whole milliseconds, for every
\* v including a negative one.
TruncMillis(v) ==
    IF v >= 0
    THEN (v \div UnitsPerSecond) * 1000 + ((v % UnitsPerSecond) * 1000) \div UnitsPerSecond
    ELSE -((((-v) \div UnitsPerSecond) * 1000) + (((-v) % UnitsPerSecond) * 1000) \div UnitsPerSecond)
FieldsOf(text, v) ==
    /\ Len(text) = 4
    /\ text[2] \in 0 .. 59
    /\ text[3] \in 0 .. 59
    /\ text[4] \in 0 .. 999
    /\ (text[1] * 3600 + text[2] * 60 + text[3]) * 1000 + text[4] = TruncMillis(v)
C9_TimerReadout ==
    event = "tick" =>
        /\ timer_set <=> show_timer
        /\ show_timer => FieldsOf(timer_text, elapsed_now)

\* C10  Pause/resume state machine: the clock starts running with no accumulated
\* pause; Space while running records pause_time = now and changes nothing else of
\* the clock; Space while paused adds exactly now - pause_time to the accumulated
\* pause; only Space changes the pause state, so pause and resume alternate, and
\* only a resume changes the accumulated pause.
C10_PauseResume ==
    /\ ~paused /\ elapsed_paused = 0
    /\ [][/\ (event' = "Space" /\ ~paused) =>
               /\ paused'
               /\ pause_time' = now
               /\ UNCHANGED << elapsed_paused, start_offset, time_multiplier, playback_start >>
          /\ (event' = "Space" /\ paused) =>
               /\ ~paused'
               /\ elapsed_paused' = elapsed_paused + (now - pause_time)
               /\ UNCHANGED << start_offset, time_multiplier, playback_start >>
          /\ paused' # paused => event' = "Space"
          /\ pause_time' # pause_time => event' = "Space" /\ ~paused
          /\ elapsed_paused' # elapsed_paused => event' = "Space" /\ paused]_vars

\* The clock was paused and has just been resumed after a pause of some length.
C10_Witness ==
    /\ event = "Space"
    /\ nkeys = 2
    /\ ~paused
    /\ elapsed_paused > 0
    /\ elapsed_paused = now - pause_time

\* C11  No torn read of the clock: a tick never runs while a handler is between
\* two of its writes, so it computes its subtitle time from the clock as a command
\* found it or as the command left it; in particular never from the offset a rate
\* adjustment has already written paired with the multiplier it has not yet
\* written.  A handler that has started is followed by its own completion (or by
\* the mere passing of time), not by another event.
C11_NoTornRead ==
    [][/\ event' = "tick" => pc = "loop" /\ pc' = "loop"
       /\ pc # "loop" => (pc' = "loop" /\ event' = event) \/ (pc' = pc /\ event' = "time")]_vars

\* A tick has run right after Ctrl+Minus, pressed after some real time, completed
\* both of its writes on the default configuration.
C11_Witness ==
    /\ event = "tick"
    /\ pc = "loop"
    /\ last_adjust.key = "CtrlMinus"
    /\ last_adjust.real > 0
    /\ last_adjust.mult = 24000
    /\ time_multiplier = 23999
    /\ start_offset # last_adjust.offset
    /\ elapsed_now = last_adjust.real * last_adjust.mult + last_adjust.offset

\* C12  The tick is read-only on the clock: whatever caption it finds and whether
\* or not the timer display is on, a tick leaves start_offset, time_multiplier,
\* paused, pause_time, elapsed_paused and playback_start unchanged, and so the
\* subtitle time; beyond the cached caption and the texts it emits it changes
\* nothing.
ClockFields ==
    << start_offset, time_multiplier, paused, pause_time, elapsed_paused, playback_start >>
C12_TickReadOnly ==
    [][event' = "tick" =>
         /\ UNCHANGED ClockFields
         /\ elapsed_now' = elapsed_now
         /\ UNCHANGED << now, subtitles, show_timer, font_size_pt, coeff_text, nkeys >>]_vars

\* A tick found a caption and set the timer text while the clock was paused after
\* some real time.
C12_Witness ==
    /\ event = "tick"
    /\ paused
    /\ now > pause_time
    /\ get_elapsed_real > 0
    /\ caption_changed
    /\ current_subtitle # ""
    /\ timer_set

\* C13  Presentation-only commands do not touch the clock: a font-size key (X, C)
\* or the timer toggle (A), in any state, leaves start_offset, time_multiplier,
\* paused, pause_time and elapsed_paused unchanged, and with them the subtitle
\* time at that instant.
C13_PresentationOnly ==
    [][event' \in { "X", "C", "A" } =>
         /\ UNCHANGED ClockFields
         /\ elapsed_now' = elapsed_now]_vars

\* X enlarged the font of the default configuration while the clock was paused
\* after some real time.
C13_Witness ==
    /\ event = "X"
    /\ paused
    /\ get_elapsed_real > 0
    /\ font_size_pt = 26
    /\ coeff_text = << 24000, 26 >>

\* C14  Caption invariant: every caption that loading a file puts in the caption
\* store has start <= end; a well-formed record whose end timestamp is earlier
\* than its start timestamp is not stored as such a caption.
C14_CaptionInvariant ==
    \A i \in 1 .. Len(subtitles) : subtitles[i].start <= subtitles[i].end

\* C15  Elapsed real time is the wall-clock time spent running: it is 0 at
\* construction, grows by exactly the time that passes while the clock runs, stays
\* put while time passes in a pause, and no event, pause and resume included,
\* makes it jump; so it is never negative and never decreases, and the accumulated
\* pause never exceeds the wall-clock time since construction.
C15_RunningTime ==
    /\ get_elapsed_real = 0
    /\ [](/\ get_elapsed_real >= 0
          /\ elapsed_paused >= 0
          /\ elapsed_paused <= now - playback_start)
    /\ [][/\ event' = "time" =>
               get_elapsed_real' = get_elapsed_real + (IF paused THEN 0 ELSE now' - now)
          /\ event' # "time" => get_elapsed_real' = get_elapsed_real
          /\ get_elapsed_real' >= get_elapsed_real]_vars

\* The clock ran, was paused for a while, was resumed and has run on since.
C15_Witness ==
    /\ event = "time"
    /\ ~paused
    /\ nkeys = 2
    /\ elapsed_paused > 0
    /\ pause_time > playback_start
    /\ now > pause_time + elapsed_paused
    /\ get_elapsed_real = (now - playback_start) - elapsed_paused

\* C16  Scale adjustment round trip, as stated: at one elapsed-real snapshot,
\* Ctrl+Plus followed by Ctrl+Minus restores multiplier and offset whenever
\* multiplier + 0.001 <= 122.0, and Ctrl+Minus followed by Ctrl+Plus whenever
\* multiplier - 0.001 >= 0.1; when the first call is clamped the pair is no round
\* trip and the multiplier ends one step inside the boundary.
\* The step about to be taken is the second key of such a pair: the key before it
\* was `first`, pressed at the elapsed real time the clock still shows.
SecondOfPair(first, second) ==
    /\ event' = second
    /\ last_adjust.key = first
    /\ last_adjust.real = get_elapsed_real
Restored ==
    /\ time_multiplier' = last_adjust.mult
    /\ start_offset' = last_adjust.offset
InRange(m) == min_coeff <= m /\ m <= max_coeff
C16_RoundTripAsStated ==
    [][/\ SecondOfPair("CtrlPlus", "CtrlMinus") =>
            IF last_adjust.mult + step <= max_coeff
            THEN Restored
            ELSE time_multiplier' = max_coeff - step /\ ~Restored
       /\ SecondOfPair("CtrlMinus", "CtrlPlus") =>
            IF last_adjust.mult - step >= min_coeff
            THEN Restored
            ELSE time_multiplier' = min_coeff + step /\ ~Restored]_vars

\* C16, amended: the round trip restores multiplier and offset whenever the first
\* call was not clamped and the multiplier was inside [0.1, 122.0] to begin with;
\* the clamped case is as stated.
C16_RoundTripAmended ==
    [][/\ SecondOfPair("CtrlPlus", "CtrlMinus") =>
            /\ (InRange(last_adjust.mult) /\ last_adjust.mult + step <= max_coeff) => Restored
            /\ last_adjust.mult + step > max_coeff =>
                   time_multiplier' = max_coeff - step /\ ~Restored
       /\ SecondOfPair("CtrlMinus", "CtrlPlus") =>
            /\ (InRange(last_adjust.mult) /\ last_adjust.mult - step >= min_coeff) => Restored
            /\ last_adjust.mult - step < min_coeff =>
                   time_multiplier' = min_coeff + step /\ ~Restored]_vars

\* Ctrl+Plus and then Ctrl+Minus were pressed on the default configuration at one
\* instant after some real time: in between the multiplier was 24.001 and the
\* offset re-solved, now both are back at 24.0 and 0.
C16_Witness ==
    /\ event = "CtrlMinus"
    /\ nkeys = 2
    /\ subtitles = HelloWorld
    /\ last_adjust.key = "CtrlMinus"
    /\ last_adjust.mult = 24001
    /\ last_adjust.real > 0
    /\ last_adjust.real = get_elapsed_real
    /\ last_adjust.offset # 0
    /\ time_multiplier = 24000
    /\ start_offset = 0

\* C17  The display stabilises while paused.  With ticks that keep firing, a clock
\* that stays paused for good ends up displaying the caption of its frozen
\* subtitle time, with no tick emitting any more.  A tick of a paused clock leaves
\* the caption of the subtitle time of that moment displayed, so an offset shift
\* or rate adjustment made in the pause shows with the very next tick; and once
\* the display agrees with the frozen time, ticks and the passing of time keep it
\* so without a further emission.
Settled == label_text = Find(subtitles, elapsed_now)
C17_Stabilises ==
    /\ (<>[]paused) => <>[](Settled /\ ~caption_changed)
    /\ [][/\ (paused /\ event' = "tick") => Settled'
          /\ (paused /\ Settled /\ event' \in { "tick", "time" }) =>
                 /\ Settled'
                 /\ label_text' = label_text
                 /\ event' = "tick" => ~caption_changed']_vars

\* The default configuration was paused at 2 s, where Hello is due, and shifted
\* by +0.5 s in the pause: the tick after the shift has emitted World.
C17_Witness ==
    /\ event = "tick"
    /\ paused
    /\ nkeys = 2
    /\ subtitles = HelloWorld
    /\ time_multiplier = 24000
    /\ get_elapsed_real = 2 * QuantaPerSecond
    /\ start_offset = HalfSecond
    /\ caption_changed
    /\ label_text = "World"

=============================================================================
